---- MODULE Spec2Model ----
(***************************************************************************)
(* A model of scanner.py, the NAPS2 command-line wrapper.                  *)
(*                                                                         *)
(* Two ways of running the code are modelled:                              *)
(*   entry = "main"  the script run as a program (lines 342-351), i.e.     *)
(*                   asyncio.run(main()) under the outermost handlers;     *)
(*   entry = "call"  the coroutine scan_with_naps2 awaited directly by a   *)
(*                   caller that receives its boolean or its exception.    *)
(*                                                                         *)
(* Strings are sequences of tokens.  A token is either a whitespace token  *)
(* (" ", "\n", "\r"), the glob wildcard "*", or a word holding neither     *)
(* whitespace nor glob metacharacters.  Concatenation, strip, split and    *)
(* glob matching are computed on these sequences.                          *)
(*                                                                         *)
(* The external tool NAPS2.Console and the filesystem are the environment: *)
(* their answers are chosen nondeterministically.                          *)
(***************************************************************************)
EXTENDS Integers, Sequences, FiniteSets, TLC

VARIABLES
    entry,        \* "main" or "call"
    argv,         \* kind of command line given to the program
    args,         \* the parameters of scan_with_naps2
    probe,        \* how the environment answers NAPS2.Console --version
    pc,           \* position of the (single) flow of control
    escaped,      \* what escaped main(): "none" or an exception name
    exit_status,  \* <<>> while running, <<n>> once the process has exited
    scan_calls,   \* number of times scan_with_naps2 has been entered
    result,       \* "none", "True", "False" or "raised"
    messages,     \* kinds of message printed so far
    effects,      \* externally visible operations, in order
    fs_folder,    \* the output folder exists
    fs_files,     \* names of the files in the output folder
    fs_folder0,   \* fs_folder when the run started
    device_name,  \* local device_name of scan_with_naps2
    listing,      \* the answer the device listing gave (<<>> before)
    output_path,  \* the --output argument (<<>> before it is built)
    child,        \* "none", "running", "exited"
    child_todo,   \* streams the child will still write a line to, in order
    child_code,   \* exit code of the child, <<>> until it exits
    pipe,         \* pipe[s]: lines written by the child, not yet read
    written,      \* <<s, line>> for every line the child wrote, in order
    rd,           \* rd[s]: "idle", "run" or "eof" for the reader of stream s
    echoed,       \* <<tag, line>> for every line echoed, in order
    exit_code,    \* <<>> until process.wait() returned, then <<code>>
    has_files,    \* <<>> until check_for_scanned_files returned, then
                  \* <<found, listing_ok>>
    errors        \* history: the steps at which an error arose

vars == <<entry, argv, args, probe, pc, escaped, exit_status, scan_calls,
          result, messages, effects, fs_folder, fs_files, fs_folder0,
          device_name, listing, output_path, child, child_todo, child_code,
          pipe, written, rd, echoed, exit_code, has_files, errors>>

(***************************************************************************)
(* Bounds of the model.                                                    *)
(***************************************************************************)
\* Lines the child writes, over both streams.
MaxLines == 3
\* Lines a pipe holds before a write to it blocks.
PipeCap == 1
\* Pages the child may save.
MaxPages == 1

(***************************************************************************)
(* Strings as token sequences.                                             *)
(***************************************************************************)
Whitespace == {" ", "\n", "\r"}

RECURSIVE lstrip(_)
lstrip(s) ==
    IF s # <<>> /\ Head(s) \in Whitespace THEN lstrip(Tail(s)) ELSE s

RECURSIVE rstrip(_)
rstrip(s) ==
    IF s # <<>> /\ s[Len(s)] \in Whitespace
    THEN rstrip(SubSeq(s, 1, Len(s) - 1))
    ELSE s

\* str.strip()
strip(s) == rstrip(lstrip(s))

\* s.split('\n')[0]
RECURSIVE FirstLine(_)
FirstLine(s) ==
    IF s = <<>> \/ Head(s) = "\n" THEN <<>>
    ELSE <<Head(s)>> \o FirstLine(Tail(s))

\* str.lower() on the format token.
lower(tok) == IF tok = "PDF" THEN "pdf" ELSE tok

\* Path.glob on one file name: "*" matches any run of tokens.
RECURSIVE GlobMatch(_, _)
GlobMatch(name, pat) ==
    IF pat = <<>> THEN name = <<>>
    ELSE IF Head(pat) = "*"
         THEN \/ GlobMatch(name, Tail(pat))
              \/ name # <<>> /\ GlobMatch(Tail(name), pat)
         ELSE /\ name # <<>>
              /\ Head(name) = Head(pat)
              /\ GlobMatch(Tail(name), Tail(pat))

(***************************************************************************)
(* The argument parser.                                                    *)
(***************************************************************************)
\* choices of -f/--format
Formats == {"png", "jpg", "jpeg", "tiff", "bmp", "pdf"}

\* The attributes parse_args() sets on the namespace: one per add_argument.
\* The automatic -h/--help option stores no attribute.
NamespaceAttrs ==
    {"output", "prefix", "format", "dpi", "color", "source", "device", "driver"}

\* Optional[str]
None == [some |-> FALSE, val |-> <<>>]
Some(s) == [some |-> TRUE, val |-> s]
\* Python truthiness of an Optional[str]
Truthy(d) == d.some /\ d.val # <<>>

OutputFolder == "scanned_pages"
Prefixes == {<<"page">>, <<"doc">>}
Devices == {None, Some(<<"Xerox", " ", "WIA">>)}

\* Arguments a direct caller may pass; the parser only lets Formats through.
CallFormats == Formats \cup {"PDF"}

ArgsOf(fmts) ==
    [output_folder : {OutputFolder}, file_prefix : Prefixes,
     file_format : fmts, device_name : Devices]

DefaultArgs ==
    [output_folder |-> OutputFolder, file_prefix |-> <<"page">>,
     file_format |-> "png", device_name |-> None]

(***************************************************************************)
(* The environment.                                                        *)
(***************************************************************************)
Streams == {"out", "err"}
ExitCodes == {0, 1}
ProbeAnswers == {"exit0", "nonzero", "oserror", "other_exception"}

\* Files a previous run may have left in the folder.
StaleNames == { <<"page", "_", "0001", ".", "png">> }

PageToken == <<"0001", "0002", "0003", "0004">>

\* Answers of NAPS2.Console --listdevices.
ListStdouts ==
    { <<>>,
      <<" ", "\n">>,
      <<"Canon", "\n", "Xerox", " ", "WIA", "\n">>,
      <<"\r", "\n", " ", "Canon", " ", "\r", "\n", "Xerox", "\r", "\n">> }

ListAnswers ==
    [kind : {"exit"}, code : ExitCodes, stdout : ListStdouts]
      \cup {[kind |-> "exception", code |-> 1, stdout |-> <<>>]}

RECURSIVE SeqsUpTo(_, _)
SeqsUpTo(S, n) ==
    IF n = 0 THEN {<<>>}
    ELSE LET shorter == SeqsUpTo(S, n - 1)
         IN  shorter \cup {<<x>> \o s : x \in S, s \in {t \in shorter : Len(t) = n - 1}}

\* What the child writes: a line to one stream after the other.
ChildPrograms == SeqsUpTo(Streams, MaxLines)

(***************************************************************************)
(* Pure parts of the program.                                              *)
(***************************************************************************)
\* Classes derived from Exception; KeyboardInterrupt and SystemExit are not.
ExceptionClasses ==
    {"OSError", "AttributeError", "UnicodeDecodeError", "NotImplementedError"}

\* except (FileNotFoundError, OSError) in is_naps2_available
AvailabilityCatches(e) == e = "OSError"

\* Mutant of is_naps2_available: the exit code of the probe is not looked at.
is_naps2_available_any_exit(answer) ==
    CASE answer \in {"exit0", "nonzero"} -> "True"
      [] answer = "oserror" -> "False"
      [] OTHER -> "NotImplementedError"

\* is_naps2_available: "True", "False", or the exception it lets through.
is_naps2_available(answer) ==
    CASE answer = "exit0" -> "True"
      [] answer = "nonzero" -> "False"
      [] answer = "oserror" ->
            IF AvailabilityCatches("OSError") THEN "False" ELSE "OSError"
      [] OTHER -> IF AvailabilityCatches("NotImplementedError")
                  THEN "False" ELSE "NotImplementedError"

\* Mutant of get_scanner_device: the first line is taken before the output
\* is stripped.
get_scanner_device_raw_first_line(answer) ==
    IF answer.kind = "exception" THEN None
    ELSE IF answer.code = 0 /\ answer.stdout # <<>>
         THEN Some(strip(FirstLine(answer.stdout)))
         ELSE None

\* get_scanner_device: the device, or None.
get_scanner_device(answer) ==
    IF answer.kind = "exception" THEN None
    ELSE IF answer.code = 0 /\ answer.stdout # <<>>
         THEN LET output == strip(answer.stdout)
              IN  IF output # <<>> THEN Some(strip(FirstLine(output))) ELSE None
         ELSE None

\* Mutant of BuildOutputPath: the page placeholder is used for every format.
BuildOutputPathAlwaysPaged(output_folder, file_prefix, file_format) ==
    <<output_folder, "/">> \o file_prefix \o <<"_", "$(nnnn)", ".", file_format>>

\* The --output argument.
BuildOutputPath(output_folder, file_prefix, file_format) ==
    IF lower(file_format) = "pdf"
    THEN <<output_folder, "/">> \o file_prefix \o <<".", file_format>>
    ELSE <<output_folder, "/">> \o file_prefix
            \o <<"_", "$(nnnn)", ".", file_format>>

\* f"{file_prefix}*.{file_format}"
SearchPattern(file_prefix, file_format) ==
    file_prefix \o <<"*", ".", file_format>>

\* check_for_scanned_files; listing_ok = FALSE is an exception while listing.
check_for_scanned_files(folder_exists, files, file_prefix, file_format, listing_ok) ==
    IF ~listing_ok THEN FALSE
    ELSE IF ~folder_exists THEN FALSE
    ELSE \E f \in files : GlobMatch(f, SearchPattern(file_prefix, file_format))

\* Mutant of Verdict: both signals are required.
VerdictNeedsBoth(hf, code) == hf /\ code = 0

\* if has_files or exit_code == 0
Verdict(hf, code) == hf \/ code = 0

\* Mutant of ScanCatches: except OSError.
ScanCatchesOSErrorOnly(e) == e = "OSError"

\* except Exception in scan_with_naps2
ScanCatches(e) == e \in ExceptionClasses

\* Mutant of ReaderMayRun: stderr is read only after stdout has ended.
ReaderMayRunInTurn(readers, s) ==
    readers[s] = "run" /\ (s = "err" => readers["out"] = "eof")

\* Which reader tasks gather() runs: both, from the start.
ReaderMayRun(readers, s) == readers[s] = "run"

\* Tag of an echoed line.
Tag(s) == IF s = "out" THEN "NAPS2" ELSE "ERROR"

(***************************************************************************)
(* The external tool, as far as the wrapper can observe it.                *)
(***************************************************************************)
HasPlaceholder(path) == \E i \in 1..Len(path) : path[i] = "$(nnnn)"

\* The file name of a path <<folder, "/", ...>>.
FileName(path) == SubSeq(path, 3, Len(path))

SubstPage(name, n) ==
    [i \in 1..Len(name) |-> IF name[i] = "$(nnnn)" THEN PageToken[n] ELSE name[i]]

\* The files the tool saves for k pages under --output path.
SavedFiles(path, k) ==
    IF k = 0 THEN {}
    ELSE IF HasPlaceholder(path)
         THEN {SubstPage(FileName(path), n) : n \in 1..k}
         ELSE {FileName(path)}

(***************************************************************************)
(* Initial states: the command line or the call, and the world around it.  *)
(***************************************************************************)
Init ==
    /\ entry \in {"main", "call"}
    /\ IF entry = "main"
       THEN argv \in {"ok", "help", "invalid"} /\ args = DefaultArgs /\ pc = "m_parse"
       ELSE argv = "none" /\ args \in ArgsOf(CallFormats) /\ pc = "c_start"
    /\ probe \in ProbeAnswers
    /\ fs_folder \in BOOLEAN
    /\ fs_files \in (IF fs_folder THEN SUBSET StaleNames ELSE {{}})
    /\ fs_folder0 = fs_folder
    /\ escaped = "none"
    /\ exit_status = <<>>
    /\ scan_calls = 0
    /\ result = "none"
    /\ messages = {}
    /\ effects = <<>>
    /\ device_name = None
    /\ listing = <<>>
    /\ output_path = <<>>
    /\ child = "none"
    /\ child_todo = <<>>
    /\ child_code = <<>>
    /\ pipe = [s \in Streams |-> <<>>]
    /\ written = <<>>
    /\ rd = [s \in Streams |-> "idle"]
    /\ echoed = <<>>
    /\ exit_code = <<>>
    /\ has_files = <<>>
    /\ errors = {}

inputV == <<entry, argv, args, probe, fs_folder0>>
mainV == <<escaped, exit_status>>
fsV == <<fs_folder, fs_files>>
childV == <<child, child_todo, child_code, pipe, written>>
readV == <<rd, echoed>>
localV == <<device_name, listing, output_path, exit_code, has_files>>
scanV == <<scan_calls, result, effects, fsV, childV, readV, localV, errors>>

(***************************************************************************)
(* The program: __main__ and main().                                       *)
(***************************************************************************)
\* The handlers around asyncio.run(main()).
Outermost(e) ==
    /\ escaped' = e
    /\ pc' = "exited"
    /\ IF e = "KeyboardInterrupt"
       THEN messages' = messages \cup {"interrupted"} /\ exit_status' = <<1>>
       ELSE IF e \in ExceptionClasses
       THEN messages' = messages \cup {"unexpected_error"} /\ exit_status' = <<1>>
       ELSE messages' = messages /\ exit_status' = <<IF argv = "help" THEN 0 ELSE 2>>

\* parser.parse_args(): -h prints the help and exits 0, a bad command line
\* prints the usage and exits 2, both with SystemExit.
MainParseArgs ==
    /\ pc = "m_parse"
    /\ IF argv = "ok"
       THEN pc' = "m_check_help" /\ UNCHANGED <<mainV, messages>>
       ELSE Outermost("SystemExit")
    /\ UNCHANGED <<inputV, scanV>>

\* if args.help: the namespace has no such attribute, so the lookup raises
\* AttributeError.  Lines 26-45 of main() come after it.
MainCheckHelp ==
    /\ pc = "m_check_help"
    /\ IF "help" \in NamespaceAttrs
       THEN pc' = "m_banner" /\ UNCHANGED <<mainV, messages>>
       ELSE Outermost("AttributeError")
    /\ UNCHANGED <<inputV, scanV>>

\* Ctrl-C while main() runs.
MainInterrupt ==
    /\ pc \in {"m_parse", "m_check_help"}
    /\ Outermost("KeyboardInterrupt")
    /\ UNCHANGED <<inputV, scanV>>

(***************************************************************************)
(* scan_with_naps2.                                                        *)
(***************************************************************************)
\* Mutant of StepAfter: the availability check is left out.
StepAfterWithoutProbe(step) ==
    CASE step = "mkdir" -> "resolve"
      [] step = "check_avail" -> "resolve"
      [] step = "resolve" -> "build"
      [] step = "build" -> "launch"
      [] step = "launch" -> "gather"
      [] step = "gather" -> "wait"
      [] step = "wait" -> "verify"
      [] step = "verify" -> "summarise"
      [] step = "summarise" -> "returned"

\* The statements of scan_with_naps2 in the order they are written.
StepAfter(step) ==
    CASE step = "mkdir" -> "check_avail"
      [] step = "check_avail" -> "resolve"
      [] step = "resolve" -> "build"
      [] step = "build" -> "launch"
      [] step = "launch" -> "gather"
      [] step = "gather" -> "wait"
      [] step = "wait" -> "verify"
      [] step = "verify" -> "summarise"
      [] step = "summarise" -> "returned"

\* An exception e raised at step `at` inside the try block of scan_with_naps2.
ScanRaise(e, at) ==
    /\ pc' = "returned"
    /\ errors' = errors \cup {at}
    /\ IF ScanCatches(e)
       THEN messages' = messages \cup {"error_during_scan"} /\ result' = "False"
       ELSE messages' = messages /\ result' = "raised"

\* Mutant of ScanFail: the operation starts over after a failure.
ScanFailThenRetry(msgs) ==
    /\ pc' = "mkdir"
    /\ messages' = messages \cup msgs
    /\ result' = result

\* print(msgs); return False
ScanFail(msgs) ==
    /\ pc' = "returned"
    /\ messages' = messages \cup msgs
    /\ result' = "False"

\* A caller awaits scan_with_naps2(...).
CallScan ==
    /\ pc = "c_start"
    /\ pc' = "mkdir"
    /\ scan_calls' = scan_calls + 1
    /\ device_name' = args.device_name
    /\ UNCHANGED <<inputV, mainV, result, messages, effects, fsV, childV, readV,
                   listing, output_path, exit_code, has_files, errors>>

\* Path(output_folder).mkdir(parents=True, exist_ok=True), then the
\* "Created folder" message if the folder does not exist.
MakeFolder ==
    /\ pc = "mkdir"
    /\ effects' = Append(effects, "mkdir")
    /\ \E ok \in BOOLEAN :
         IF ok
         THEN /\ fs_folder' = TRUE
              /\ pc' = StepAfter(pc)
              /\ messages' = IF ~fs_folder' THEN messages \cup {"created_folder"}
                             ELSE messages
              /\ UNCHANGED <<result, errors>>
         ELSE /\ fs_folder' = fs_folder
              /\ ScanRaise("OSError", "mkdir")
    /\ UNCHANGED <<inputV, mainV, scan_calls, fs_files, childV, readV, localV>>

\* if not await is_naps2_available(): ...
CheckAvailability ==
    /\ pc = "check_avail"
    /\ effects' = Append(effects, "version")
    /\ LET r == is_naps2_available(probe)
       IN  IF r = "True"
           THEN pc' = StepAfter(pc) /\ UNCHANGED <<messages, result, errors>>
           ELSE IF r = "False"
           THEN ScanFail({"naps2_not_found"}) /\ errors' = errors \cup {"unavailable"}
           ELSE ScanRaise(r, "probe")
    /\ UNCHANGED <<inputV, mainV, scan_calls, fsV, childV, readV, localV>>

\* if device_name is None: device_name = await get_scanner_device(driver)
ResolveDevice ==
    /\ pc = "resolve"
    /\ IF device_name # None
       THEN /\ pc' = StepAfter(pc)
            /\ UNCHANGED <<messages, result, effects, device_name, listing, errors>>
       ELSE \E answer \in ListAnswers :
              LET d == get_scanner_device(answer)
                  raised == answer.kind = "exception"
                  m == IF raised THEN {"error_finding_scanner"} ELSE {}
                  e == IF raised THEN {"listing"} ELSE {}
              IN  /\ effects' = Append(effects, "listdevices")
                  /\ listing' = <<answer>>
                  /\ device_name' = d
                  /\ IF ~Truthy(d)
                     THEN /\ ScanFail(m \cup {"no_scanner_found"})
                          /\ errors' = errors \cup e \cup {"no_device"}
                     ELSE /\ pc' = StepAfter(pc)
                          /\ messages' = messages \cup m
                          /\ result' = result
                          /\ errors' = errors \cup e
    /\ UNCHANGED <<inputV, mainV, scan_calls, fsV, childV, readV,
                   output_path, exit_code, has_files>>

\* Lines 170-196: the scanner message, the output path and the command.
BuildCommand ==
    /\ pc = "build"
    /\ output_path' =
          BuildOutputPath(args.output_folder, args.file_prefix, args.file_format)
    /\ messages' = messages \cup {"scanner", "command"}
    /\ pc' = StepAfter(pc)
    /\ UNCHANGED <<inputV, mainV, scan_calls, result, effects, fsV, childV, readV,
                   device_name, listing, exit_code, has_files, errors>>

\* asyncio.create_subprocess_exec(*arguments, stdout=PIPE, stderr=PIPE)
LaunchScan ==
    /\ pc = "launch"
    /\ effects' = Append(effects, "scan")
    /\ \E ok \in BOOLEAN :
         IF ok
         THEN /\ \E prog \in ChildPrograms : child_todo' = prog
              /\ child' = "running"
              /\ rd' = [s \in Streams |-> "run"]
              /\ pc' = StepAfter(pc)
              /\ UNCHANGED <<messages, result, errors>>
         ELSE /\ ScanRaise("OSError", "launch")
              /\ UNCHANGED <<child, child_todo, rd>>
    /\ UNCHANGED <<inputV, mainV, scan_calls, fsV, child_code, pipe, written,
                   echoed, localV>>

\* The child writes its next line; it blocks while that pipe is full.
ChildWrite ==
    /\ child = "running"
    /\ child_todo # <<>>
    /\ LET s == Head(child_todo)
           line == Len(written) + 1
       IN  /\ Len(pipe[s]) < PipeCap
           /\ pipe' = [pipe EXCEPT ![s] = Append(@, line)]
           /\ written' = Append(written, <<s, line>>)
    /\ child_todo' = Tail(child_todo)
    /\ UNCHANGED <<inputV, mainV, pc, scan_calls, result, messages, effects, fsV,
                   child, child_code, readV, localV, errors>>

\* The child saves its pages and exits, which closes both pipes.
ChildExit ==
    /\ child = "running"
    /\ child_todo = <<>>
    /\ child' = "exited"
    /\ \E code \in ExitCodes : child_code' = <<code>>
    /\ \E k \in 0..MaxPages :
         fs_files' = IF fs_folder THEN fs_files \cup SavedFiles(output_path, k)
                     ELSE fs_files
    /\ UNCHANGED <<inputV, mainV, pc, scan_calls, result, messages, effects,
                   fs_folder, child_todo, pipe, written, readV, localV, errors>>

\* One turn of read_output(stream, prefix): readline, then either the end
\* of the stream or decode and echo.  An exception in a reader leaves
\* gather() at once.
ReadOutput(s) ==
    /\ pc = "gather"
    /\ ReaderMayRun(rd, s)
    /\ IF pipe[s] # <<>>
       THEN /\ pipe' = [pipe EXCEPT ![s] = Tail(@)]
            /\ \E decodes \in BOOLEAN :
                 IF decodes
                 THEN /\ echoed' = Append(echoed, <<Tag(s), Head(pipe[s])>>)
                      /\ UNCHANGED <<pc, messages, result, errors>>
                 ELSE /\ echoed' = echoed
                      /\ ScanRaise("UnicodeDecodeError", "read")
            /\ rd' = rd
       ELSE /\ child = "exited"
            /\ rd' = [rd EXCEPT ![s] = "eof"]
            /\ UNCHANGED <<pc, messages, result, pipe, echoed, errors>>
    /\ UNCHANGED <<inputV, mainV, scan_calls, effects, fsV, child, child_todo,
                   child_code, written, localV>>

\* await asyncio.gather(...) returns once both readers returned.
GatherDone ==
    /\ pc = "gather"
    /\ \A s \in Streams : rd[s] = "eof"
    /\ pc' = StepAfter(pc)
    /\ UNCHANGED <<inputV, mainV, scan_calls, result, messages, effects, fsV,
                   childV, readV, localV, errors>>

\* exit_code = await process.wait()
WaitProcess ==
    /\ pc = "wait"
    /\ child = "exited"
    /\ exit_code' = child_code
    /\ messages' = messages \cup {"finished_exit_code"}
    /\ pc' = StepAfter(pc)
    /\ UNCHANGED <<inputV, mainV, scan_calls, result, effects, fsV, childV, readV,
                   device_name, listing, output_path, has_files, errors>>

\* Lines 226-233: has_files, then the verdict.
Verify ==
    /\ pc = "verify"
    /\ \E listing_ok \in BOOLEAN :
         LET hf == check_for_scanned_files(fs_folder, fs_files, args.file_prefix,
                                           args.file_format, listing_ok)
             e == IF listing_ok THEN {} ELSE {"check_files"}
         IN  /\ has_files' = <<hf, listing_ok>>
             /\ IF Verdict(hf, exit_code[1])
                THEN /\ pc' = StepAfter(pc)
                     /\ UNCHANGED <<messages, result>>
                     /\ errors' = errors \cup e
                ELSE /\ ScanFail({"no_files_created"})
                     /\ errors' = errors \cup e \cup {"scan_failed"}
    /\ UNCHANGED <<inputV, mainV, scan_calls, effects, fsV, childV, readV,
                   device_name, listing, output_path, exit_code>>

\* show_scan_results(...); return True
Summarise ==
    /\ pc = "summarise"
    /\ \E ok \in BOOLEAN :
         IF ok
         THEN /\ messages' = messages \cup {"files_created"} \cup
                   (IF \E f \in fs_files :
                        GlobMatch(f, SearchPattern(args.file_prefix, args.file_format))
                    THEN {"all_files_saved"} ELSE {})
              /\ errors' = errors
         ELSE /\ messages' = messages \cup {"error_showing_results"}
              /\ errors' = errors \cup {"show_results"}
    /\ result' = "True"
    /\ pc' = StepAfter(pc)
    /\ UNCHANGED <<inputV, mainV, scan_calls, effects, fsV, childV, readV, localV>>

Next ==
    \/ MainParseArgs
    \/ MainCheckHelp
    \/ MainInterrupt
    \/ CallScan
    \/ MakeFolder
    \/ CheckAvailability
    \/ ResolveDevice
    \/ BuildCommand
    \/ LaunchScan
    \/ ChildWrite
    \/ ChildExit
    \/ \E s \in Streams : ReadOutput(s)
    \/ GatherDone
    \/ WaitProcess
    \/ Verify
    \/ Summarise

Spec == Init /\ [][Next]_vars

(***************************************************************************)
(* Vocabulary of the properties.                                           *)
(***************************************************************************)
Range(q) == {q[i] : i \in 1..Len(q)}

StartsWith(name, pre) ==
    Len(name) >= Len(pre) /\ SubSeq(name, 1, Len(pre)) = pre

EndsWith(name, suf) ==
    Len(name) >= Len(suf)
      /\ SubSeq(name, Len(name) - Len(suf) + 1, Len(name)) = suf

\* A file named <prefix><anything>.<format> is in the output folder.
MatchingFileExists ==
    /\ fs_folder
    /\ \E f \in fs_files :
         /\ Len(f) >= Len(args.file_prefix) + 2
         /\ StartsWith(f, args.file_prefix)
         /\ EndsWith(f, <<".", args.file_format>>)

Blank(q) == \A i \in 1..Len(q) : q[i] \in Whitespace

RECURSIVE SplitLines(_)
SplitLines(q) ==
    IF \A i \in 1..Len(q) : q[i] # "\n" THEN <<q>>
    ELSE LET i == CHOOSE i \in 1..Len(q) :
                     q[i] = "\n" /\ \A j \in 1..(i - 1) : q[j] # "\n"
         IN  <<SubSeq(q, 1, i - 1)>> \o SplitLines(SubSeq(q, i + 1, Len(q)))

\* The first line holding something else than whitespace, stripped.
FirstNonBlankLineStripped(q) ==
    LET ls == SplitLines(q)
        i == CHOOSE i \in 1..Len(ls) :
                 ~Blank(ls[i]) /\ \A j \in 1..(i - 1) : Blank(ls[j])
    IN  strip(ls[i])

AvailabilityFailed == "unavailable" \in errors \/ "probe" \in errors

(***************************************************************************)
(* C1                                                                      *)
(***************************************************************************)
\* C1 as stated: once the scan process has terminated and the verification
\* has run, scan_with_naps2 returns True if and only if the exit code is
\* zero or a file matching <prefix>*.<format> exists in the output folder.
C1_TrueIffExitZeroOrFileExists ==
    (pc = "returned" /\ has_files # <<>> /\ args.file_format \in Formats) =>
        (result = "True" <=> (exit_code[1] = 0 \/ MatchingFileExists))

\* C1 as amended: scan_with_naps2 returns True if and only if the exit code
\* is zero or check_for_scanned_files finds a matching file, which it does
\* when such a file exists and listing the folder raises no exception; it
\* returns False, with "No files were created", exactly otherwise.
C1_TrueIffExitZeroOrFileFound ==
    (pc = "returned" /\ has_files # <<>>) =>
        /\ result \in {"True", "False"}
        /\ has_files[1] <=> (MatchingFileExists /\ has_files[2])
        /\ result = "True" <=> (exit_code[1] = 0 \/ has_files[1])
        /\ result = "False" <=> "no_files_created" \in messages

\* A nonzero exit with a matching file found was reported as success.
C1_Witness ==
    /\ pc = "returned"
    /\ exit_code = <<1>>
    /\ has_files = <<TRUE, TRUE>>
    /\ result = "True"

(***************************************************************************)
(* C2                                                                      *)
(***************************************************************************)
\* C2: if the availability probe exits nonzero or cannot be launched
\* (OSError), neither the device listing nor the scan command is ever
\* launched, "NAPS2.Console not found" is reported and scan_with_naps2
\* returns False.
C2_UnavailableStopsTheRun ==
    probe \in {"nonzero", "oserror"} =>
        /\ "listdevices" \notin Range(effects)
        /\ "scan" \notin Range(effects)
        /\ child = "none"
        /\ "version" \in Range(effects) =>
              /\ pc = "returned"
              /\ result = "False"
              /\ "naps2_not_found" \in messages

\* The probe could not be launched and the run ended there.
C2_Witness ==
    /\ probe = "oserror"
    /\ "version" \in Range(effects)
    /\ pc = "returned"
    /\ "naps2_not_found" \in messages

(***************************************************************************)
(* C3                                                                      *)
(***************************************************************************)
\* C3: with no device given, a listing that raises, exits nonzero or gives
\* blank output yields no device, "No scanner found", False and no scan;
\* a listing that exits zero with non-blank output yields its first
\* non-blank line, stripped.
C3_DeviceResolution ==
    (args.device_name = None /\ listing # <<>>) =>
        LET a == listing[1]
        IN  IF a.kind = "exception" \/ a.code # 0 \/ Blank(a.stdout)
            THEN /\ ~Truthy(device_name)
                 /\ "no_scanner_found" \in messages
                 /\ pc = "returned"
                 /\ result = "False"
                 /\ "scan" \notin Range(effects)
            ELSE device_name = Some(FirstNonBlankLineStripped(a.stdout))

\* The listing began with a blank line and the device is the line after it.
C3_Witness ==
    /\ args.device_name = None
    /\ listing # <<>>
    /\ listing[1].kind = "exit"
    /\ listing[1].code = 0
    /\ Len(listing[1].stdout) > 0
    /\ listing[1].stdout[1] = "\r"
    /\ device_name = Some(<<"Canon">>)
    /\ "scan" \in Range(effects)

C5_MainScansOnceThenWaits ==
    (entry = "main" /\ argv = "ok" /\ escaped # "KeyboardInterrupt" /\ pc = "exited") =>
        /\ scan_calls = 1
        /\ {"summary_line", "press_enter"} \subseteq messages

(***************************************************************************)
(* C6                                                                      *)
(***************************************************************************)
\* Errors that end the operation.
FatalErrors ==
    {"mkdir", "unavailable", "probe", "no_device", "launch", "read", "scan_failed"}

\* The message that reports an error.
ReportOf(e) ==
    CASE e \in {"mkdir", "probe", "launch", "read"} -> {"error_during_scan"}
      [] e = "unavailable" -> {"naps2_not_found"}
      [] e = "listing" -> {"error_finding_scanner"}
      [] e = "no_device" -> {"no_scanner_found"}
      [] e = "scan_failed" -> {"no_files_created"}
      [] e = "show_results" -> {"error_showing_results"}
      [] e = "check_files" ->
            {"error_during_scan", "no_files_created", "error_showing_results"}

\* C6 as stated: every error arising inside the scan operation is caught,
\* reported as a message and mapped to a boolean; scan_with_naps2 never
\* raises an Exception, and an exception while summarising leaves the
\* verdict True.
C6_EveryErrorCaughtAndReported ==
    /\ result # "raised"
    /\ args.file_format \in Formats =>
          \A e \in errors : ReportOf(e) \cap messages # {}
    /\ pc = "returned" =>
          /\ result \in {"True", "False"}
          /\ errors \cap FatalErrors # {} => result = "False"
          /\ "show_results" \in errors => result = "True"

\* C6 as amended: every error arising inside the scan operation is caught
\* and mapped to a boolean, scan_with_naps2 never raises an Exception, and
\* an exception while summarising leaves the verdict True; every error is
\* reported as a message except an exception raised while looking for the
\* scanned files, which is swallowed without a message and counts as "no
\* file found".
C6_EveryErrorCaught ==
    /\ result # "raised"
    /\ \A e \in errors \ {"check_files"} : ReportOf(e) \cap messages # {}
    /\ has_files # <<>> /\ ~has_files[2] => ~has_files[1]
    /\ pc = "returned" =>
          /\ result \in {"True", "False"}
          /\ errors \cap FatalErrors # {} => result = "False"
          /\ "show_results" \in errors => result = "True"

\* A line of the child could not be decoded, and the caller got False.
C6_Witness ==
    /\ pc = "returned"
    /\ "read" \in errors
    /\ "error_during_scan" \in messages
    /\ result = "False"

(***************************************************************************)
(* C7                                                                      *)
(***************************************************************************)
\* C7 as stated: the version query is the first externally visible effect of
\* the scan operation, so when the availability check fails no output
\* folder has been created.
C7_ProbeIsFirstEffect ==
    (args.file_format \in Formats /\ "version" \in Range(effects)) =>
        /\ effects[1] = "version"
        /\ AvailabilityFailed => fs_folder = fs_folder0

\* C7 as amended: the version query is the first external command of the
\* scan operation, invoked before the device listing and the scan but
\* after the output folder has been created; when the availability check
\* fails no other command has been launched and the output folder exists.
C7_ProbeIsFirstCommand ==
    /\ \A i \in 1..Len(effects) :
          /\ effects[i] \in {"listdevices", "scan"} =>
                \E j \in 1..(i - 1) : effects[j] = "version"
          /\ effects[i] = "version" =>
                i = 2 /\ effects[1] = "mkdir" /\ fs_folder
    /\ AvailabilityFailed =>
          /\ effects = <<"mkdir", "version">>
          /\ fs_folder
          /\ child = "none"

\* The tool was not available and the folder, absent before, now exists.
C7_Witness ==
    /\ AvailabilityFailed
    /\ ~fs_folder0
    /\ fs_folder
    /\ result = "False"

(***************************************************************************)
(* C8                                                                      *)
(***************************************************************************)
\* The phase of the scan operation.
Phase ==
    CASE pc = "check_avail" -> "CheckingAvailability"
      [] pc = "resolve" -> "ResolvingDevice"
      [] pc \in {"build", "launch", "gather", "wait"} -> "Scanning"
      [] pc \in {"verify", "summarise"} -> "Verifying"
      [] pc = "returned" -> IF result = "True" THEN "Succeeded" ELSE "Failed"
      [] OTHER -> "Idle"

Rank(ph) ==
    CASE ph = "Idle" -> 0
      [] ph = "CheckingAvailability" -> 1
      [] ph = "ResolvingDevice" -> 2
      [] ph = "Scanning" -> 3
      [] ph = "Verifying" -> 4
      [] OTHER -> 5

Launches(log, c) == Cardinality({i \in 1..Len(log) : log[i] = c})

LinesOf(log, key) ==
    LET sel == SelectSeq(log, LAMBDA e : e[1] = key)
    IN  [i \in 1..Len(sel) |-> sel[i][2]]

IsPrefix(a, b) == Len(a) <= Len(b) /\ SubSeq(b, 1, Len(a)) = a

\* While the streams are drained, the child or a reader can take a step.
DrainCanProceed ==
    ENABLED (ChildWrite \/ ChildExit \/ GatherDone \/ \E s \in Streams : ReadOutput(s))

C10_FailedScanExitsZero ==
    /\ (entry = "main" /\ argv = "ok" /\ probe # "exit0" /\ pc = "exited"
          /\ escaped # "KeyboardInterrupt") =>
          /\ exit_status = <<0>>
          /\ "summary_line" \in messages
    /\ (pc = "exited" /\ exit_status = <<1>>) =>
          escaped \in ExceptionClasses \cup {"KeyboardInterrupt"}

====
